---- MODULE Spec2Model ----
(***************************************************************************)
(* Model of the keystore of webchain-rs.                                   *)
(*                                                                         *)
(* Storage (emerald-core/src/storage/keyfile/db.rs): DbStorage over a      *)
(* RocksDB handle, key = address bytes, value = <filename> <|>             *)
(* <keyfile_json>; called by one caller (Spec, SpecRaw), by split alone    *)
(* (SpecStorageAndSplit) and by two threads (SpecThreads).                 *)
(* Engine and codec (tests/keystore_test.rs): encrypt/decrypt (SpecCrypto) *)
(* and json::encode/json::decode (SpecCodec).                              *)
(* Endpoint (src/rpc/mod.rs): the callbacks of eth_sendTransaction,        *)
(* backend_importWallet and personal_newAccount (SpecRpc).                 *)
(* Helpers (src/util/mod.rs): align_bytes, trim_bytes, to_u64, to_bytes    *)
(* and rlp_bytes_count (SpecUtil).  A u64 is four 16-bit words, most       *)
(* significant first.                                                      *)
(*                                                                         *)
(* Strings and byte vectors are sequences of symbols.  The three symbols   *)
(* "<", "|", ">" are the characters of the separator; "xFF" is a byte that *)
(* is not valid UTF-8; the other symbols stand for runs of characters that *)
(* contain none of the separator's characters.                             *)
(*                                                                         *)
(* RocksDB calls are taken to succeed (no I/O failure), and the DBVector   *)
(* built in list_accounts is taken to be a view of the iterator's value.   *)
(***************************************************************************)
EXTENDS Integers, Sequences, FiniteSets, TLC

VARIABLES db, last, trail, splitIn, splitOut,
          pc, job, kfRead, snap, ret, stable, stored,
          cryptIn, cryptKf, cryptOut,
          codecIn, codecOut,
          req, reply, flushed, upstream, served,
          utilIn, utilOut

\* the threads that share one DbStorage handle
threadVars == <<pc, job, kfRead, snap, ret, stable, stored>>

\* the derivation and cipher engine applied to one record
cryptoVars == <<cryptIn, cryptKf, cryptOut>>

\* the KeyFile codec applied to one record
codecVars == <<codecIn, codecOut>>

\* the JSON-RPC endpoint
rpcVars == <<req, reply, flushed, upstream, served>>

\* the byte and integer helpers applied to one argument
utilVars == <<utilIn, utilOut>>

restVars == <<threadVars, cryptoVars, codecVars, rpcVars, utilVars>>

vars == <<db, last, trail, splitIn, splitOut, restVars>>

----------------------------------------------------------------------------
(* Bounds *)

\* a name carries at most MaxSeps occurrences of the separator
MaxSeps == 1

\* texts handed to split alone have at most MaxText symbols
MaxText == 6

\* filenames handed to split alone have at most MaxFile symbols
MaxFile == 1

\* a secret has SecretLen symbols (each 0 or 1)
SecretLen == 2

\* the endpoint serves at most MaxRequests requests
MaxRequests == 2

\* align_bytes and trim_bytes are given at most MaxData bytes
MaxData == 3

\* align_bytes is asked for at most MaxAlign bytes
MaxAlign == 4

----------------------------------------------------------------------------
(* Option and Result values *)

None == <<>>

Some(x) == <<x>>

Ok(v) == [tag |-> "Ok", val |-> v]

Err(e) == [tag |-> "Err", val |-> e]

IsOk(r) == r.tag = "Ok"

Unit == "()"

NotFound == "NotFound"

InvalidJson == "InvalidJson"

----------------------------------------------------------------------------
(* Domains of the inputs *)

Addresses == {"A1", "A2"}

\* RocksDB iterates keys in byte order (IteratorMode::Start)
AddrOrder == <<"A1", "A2">>

Uuids == {"u1", "u2"}

\* the instants at which a filename is generated: the time stamp is opaque to
\* DbStorage, which never parses a filename, so one instant stands for all
Timestamps == {"t1"}

Kdfs == {"scrypt", "pbkdf2"}

Macs == {"mac1", "mac2"}

SEPARATOR == <<"<", "|", ">">>

RECURSIVE NameWith(_)
NameWith(k) == IF k = 0 THEN <<"n">> ELSE NameWith(k - 1) \o SEPARATOR \o <<"x">>

Names == {NameWith(k) : k \in 1..MaxSeps}

Descriptions == {<<"d">>}

Bool == {TRUE, FALSE}

Opt(S) == {None} \cup {Some(x) : x \in S}

\* the kdf and cipher parameters, the mac and the meta record travel together
CryptoOf(u) ==
    IF u = "u1" THEN [kdf |-> "scrypt", mac |-> "mac1", meta |-> None]
    ELSE [kdf |-> "pbkdf2", mac |-> "mac2", meta |-> Some("meta")]

MkKeyFile(u, a, v, n, d) ==
    [uuid |-> u, address |-> a, visible |-> v, name |-> n, description |-> d,
     kdf |-> CryptoOf(u).kdf, keccak256_mac |-> CryptoOf(u).mac,
     meta |-> CryptoOf(u).meta]

KeyFiles ==
    {MkKeyFile(u, a, v, n, d) :
        u \in Uuids, a \in Addresses, v \in Opt(Bool), n \in Opt(Names),
        d \in Opt(Descriptions)}

----------------------------------------------------------------------------
(* String helpers: str::split and [&str]::join *)

Min(S) == CHOOSE x \in S : \A y \in S : x <= y

StartsWith(s, i, pat) ==
    /\ i + Len(pat) - 1 <= Len(s)
    /\ SubSeq(s, i, i + Len(pat) - 1) = pat

RECURSIVE StrSplit(_, _)
StrSplit(s, pat) ==
    LET hits == {i \in 1..Len(s) : StartsWith(s, i, pat)} IN
    IF hits = {} THEN <<s>>
    ELSE LET i == Min(hits) IN
         <<SubSeq(s, 1, i - 1)>> \o StrSplit(SubSeq(s, i + Len(pat), Len(s)), pat)

RECURSIVE StrJoin(_, _)
StrJoin(arr, pat) ==
    IF Len(arr) = 0 THEN <<>>
    ELSE IF Len(arr) = 1 THEN arr[1]
    ELSE arr[1] \o pat \o StrJoin(Tail(arr), pat)

\* DBVector::to_utf8: None when the bytes are not valid UTF-8
to_utf8(bytes) == IF \E i \in 1..Len(bytes) : bytes[i] = "xFF" THEN None ELSE Some(bytes)

----------------------------------------------------------------------------
(* KeyFile JSON: json::encode / KeyFile::decode, and the filename *)

\* the address of a KeyFile that has none (address: None)
NoAddress == "none"

EncStr(s) == <<"\"">> \o s \o <<"\"">>

\* encode as it would be if an empty name were written as an absent one
encode_SkipEmptyName(kf) ==
    <<"{", "id", kf.uuid>>
    \o (IF kf.address # NoAddress THEN <<"address", kf.address>> ELSE <<>>)
    \o (IF kf.name # None /\ kf.name # Some(<<>>)
        THEN <<"name">> \o EncStr(kf.name[1]) ELSE <<>>)
    \o (IF kf.description # None
        THEN <<"description">> \o EncStr(kf.description[1]) ELSE <<>>)
    \o (IF kf.visible # None
        THEN <<"visible", IF kf.visible[1] THEN "true" ELSE "false">> ELSE <<>>)
    \o (IF kf.meta # None THEN <<"meta", kf.meta[1]>> ELSE <<>>)
    \o <<"crypto", kf.kdf, kf.keccak256_mac, "}">>

encode(kf) ==
    <<"{", "id", kf.uuid>>
    \o (IF kf.address # NoAddress THEN <<"address", kf.address>> ELSE <<>>)
    \o (IF kf.name # None THEN <<"name">> \o EncStr(kf.name[1]) ELSE <<>>)
    \o (IF kf.description # None
        THEN <<"description">> \o EncStr(kf.description[1]) ELSE <<>>)
    \o (IF kf.visible # None
        THEN <<"visible", IF kf.visible[1] THEN "true" ELSE "false">> ELSE <<>>)
    \o (IF kf.meta # None THEN <<"meta", kf.meta[1]>> ELSE <<>>)
    \o <<"crypto", kf.kdf, kf.keccak256_mac, "}">>

\* the symbol at position i of j, "EOF" past its end
At(j, i) == IF i >= 1 /\ i <= Len(j) THEN j[i] ELSE "EOF"

\* the position of the first quote after position i, 0 when there is none
QuoteEnd(j, i) ==
    LET qs == {q \in (i + 1)..Len(j) : j[q] = "\""} IN
    IF qs = {} THEN 0 ELSE Min(qs)

\* a quoted string starts at position p
IsStr(j, p) == At(j, p) = "\"" /\ QuoteEnd(j, p) # 0

DecCrypto(j, p, kf) ==
    IF /\ At(j, p) = "crypto" /\ At(j, p + 1) \in Kdfs /\ At(j, p + 2) \in Macs
       /\ At(j, p + 3) = "}" /\ Len(j) = p + 3
    THEN Ok([kf EXCEPT !.kdf = j[p + 1], !.keccak256_mac = j[p + 2]])
    ELSE Err(InvalidJson)

DecMeta(j, p, kf) ==
    IF At(j, p) = "meta" /\ At(j, p + 1) = "meta"
    THEN DecCrypto(j, p + 2, [kf EXCEPT !.meta = Some(j[p + 1])])
    ELSE DecCrypto(j, p, kf)

DecVisible(j, p, kf) ==
    IF At(j, p) = "visible" /\ At(j, p + 1) \in {"true", "false"}
    THEN DecMeta(j, p + 2, [kf EXCEPT !.visible = Some(j[p + 1] = "true")])
    ELSE DecMeta(j, p, kf)

DecDescription(j, p, kf) ==
    IF At(j, p) = "description" /\ IsStr(j, p + 1)
    THEN DecVisible(j, QuoteEnd(j, p + 1) + 1,
             [kf EXCEPT !.description = Some(SubSeq(j, p + 2, QuoteEnd(j, p + 1) - 1))])
    ELSE DecVisible(j, p, kf)

DecName(j, p, kf) ==
    IF At(j, p) = "name" /\ IsStr(j, p + 1)
    THEN DecDescription(j, QuoteEnd(j, p + 1) + 1,
             [kf EXCEPT !.name = Some(SubSeq(j, p + 2, QuoteEnd(j, p + 1) - 1))])
    ELSE DecDescription(j, p, kf)

DecAddress(j, p, kf) ==
    IF At(j, p) = "address" /\ At(j, p + 1) \in Addresses
    THEN DecName(j, p + 2, [kf EXCEPT !.address = j[p + 1]])
    ELSE DecName(j, p, kf)

decode(j) ==
    IF At(j, 1) = "{" /\ At(j, 2) = "id" /\ At(j, 3) \in Uuids
    THEN DecAddress(j, 4,
             [uuid |-> j[3], address |-> NoAddress, visible |-> None, name |-> None,
              description |-> None, kdf |-> "", keccak256_mac |-> "", meta |-> None])
    ELSE Err(InvalidJson)

\* UTC--<timestamp>--<uuid>; ts is the time of the call
generate_filename(uuid, ts) == <<"UTC--", ts, "--", uuid>>

\* AccountInfo::from(kf), filename left empty
AccountInfoFrom(kf) ==
    [address |-> kf.address, name |-> kf.name, description |-> kf.description,
     visible |-> kf.visible, filename |-> <<>>]

----------------------------------------------------------------------------
(* DbStorage *)

\* db.get / db.put / db.delete of the RocksDB handle
DbGet(d, key) == d[key]

DbPut(d, key, val) == [d EXCEPT ![key] = Some(val)]

\* db.delete as it would be if it removed every key
DbDelete_Clear(d, key) == [a \in DOMAIN d |-> None]

DbDelete(d, key) == [d EXCEPT ![key] = None]

\* split as it would be with the segments after the second one dropped
split_NoRejoin(bytes) ==
    IF bytes = None THEN Err(NotFound)
    ELSE IF to_utf8(bytes[1]) = None THEN Err(NotFound)
    ELSE LET arr == StrSplit(bytes[1], SEPARATOR) IN
         Ok(<<arr[1], IF Len(arr) >= 2 THEN arr[2] ELSE <<>>>>)

\* split as it would be with an absent value read as an empty one
split_DefaultOnNone(bytes) ==
    IF bytes = None THEN Ok(<<<<>>, <<>>>>)
    ELSE IF to_utf8(bytes[1]) = None THEN Err(NotFound)
    ELSE LET arr == StrSplit(bytes[1], SEPARATOR) IN
         Ok(<<arr[1], StrJoin(SubSeq(arr, 2, Len(arr)), SEPARATOR)>>)

split(bytes) ==
    IF bytes = None THEN Err(NotFound)
    ELSE IF to_utf8(bytes[1]) = None THEN Err(NotFound)
    ELSE LET arr == StrSplit(bytes[1], SEPARATOR) IN
         Ok(<<arr[1], StrJoin(SubSeq(arr, 2, Len(arr)), SEPARATOR)>>)

\* put as it would be if it kept a value already stored under the address
put_IfAbsent(d, kf, ts) ==
    LET val == generate_filename(kf.uuid, ts) \o SEPARATOR \o encode(kf) IN
    IF DbGet(d, kf.address) # None THEN [db |-> d, res |-> Ok(Unit)]
    ELSE [db |-> DbPut(d, kf.address, val), res |-> Ok(Unit)]

\* put as it would be if it kept the name of a record already stored under
\* the address
put_KeepName(d, kf, ts) ==
    LET old == split(DbGet(d, kf.address))
        k == IF IsOk(old) THEN decode(old.val[2]) ELSE old
        kf2 == IF IsOk(k) THEN [kf EXCEPT !.name = k.val.name] ELSE kf
        val == generate_filename(kf2.uuid, ts) \o SEPARATOR \o encode(kf2)
    IN  [db |-> DbPut(d, kf.address, val), res |-> Ok(Unit)]

put(d, kf, ts) ==
    LET val == generate_filename(kf.uuid, ts) \o SEPARATOR \o encode(kf) IN
    [db |-> DbPut(d, kf.address, val), res |-> Ok(Unit)]

\* delete as it would be if it reported success and removed nothing
delete_NoRemove(d, addr) == [db |-> d, res |-> Ok(Unit)]

delete(d, addr) == [db |-> DbDelete(d, addr), res |-> Ok(Unit)]

search_by_address(d, addr) ==
    LET s == split(DbGet(d, addr)) IN
    IF ~IsOk(s) THEN s ELSE decode(s.val[2])

hide(d, addr, ts) ==
    LET r == search_by_address(d, addr) IN
    IF ~IsOk(r) THEN [db |-> d, res |-> r]
    ELSE LET p == put(d, [r.val EXCEPT !.visible = Some(FALSE)], ts) IN
         IF ~IsOk(p.res) THEN p ELSE [db |-> p.db, res |-> Ok(TRUE)]

\* unhide as it would be without the put that writes the record back
unhide_NoWrite(d, addr, ts) ==
    LET r == search_by_address(d, addr) IN
    IF ~IsOk(r) THEN [db |-> d, res |-> r] ELSE [db |-> d, res |-> Ok(TRUE)]

unhide(d, addr, ts) ==
    LET r == search_by_address(d, addr) IN
    IF ~IsOk(r) THEN [db |-> d, res |-> r]
    ELSE LET p == put(d, [r.val EXCEPT !.visible = Some(TRUE)], ts) IN
         IF ~IsOk(p.res) THEN p ELSE [db |-> p.db, res |-> Ok(TRUE)]

\* the filter as it would be with is_some() in place of is_none() || unwrap()
Shown_IsSome(kf, show_hidden) ==
    kf.visible # None \/ show_hidden

Shown(kf, show_hidden) ==
    kf.visible = None \/ kf.visible[1] \/ show_hidden

RECURSIVE ListFrom(_, _, _, _)
ListFrom(d, i, show_hidden, accounts) ==
    IF i > Len(AddrOrder) THEN Ok(accounts)
    ELSE IF DbGet(d, AddrOrder[i]) = None
         THEN ListFrom(d, i + 1, show_hidden, accounts)
    ELSE LET s == split(DbGet(d, AddrOrder[i])) IN
         IF ~IsOk(s) THEN s
         ELSE LET k == decode(s.val[2]) IN
              IF IsOk(k) /\ Shown(k.val, show_hidden)
              THEN ListFrom(d, i + 1, show_hidden,
                       Append(accounts,
                              [AccountInfoFrom(k.val) EXCEPT !.filename = s.val[1]]))
              ELSE ListFrom(d, i + 1, show_hidden, accounts)

list_accounts(d, show_hidden) == ListFrom(d, 1, show_hidden, <<>>)

\* update as it would be with the name assigned whether or not it is supplied
update_AlwaysName(d, addr, name, desc, ts) ==
    LET r == search_by_address(d, addr) IN
    IF ~IsOk(r) THEN [db |-> d, res |-> r]
    ELSE LET kf1 == [r.val EXCEPT !.name = name]
             kf2 == IF desc # None THEN [kf1 EXCEPT !.description = desc] ELSE kf1
         IN  put(d, kf2, ts)

update(d, addr, name, desc, ts) ==
    LET r == search_by_address(d, addr) IN
    IF ~IsOk(r) THEN [db |-> d, res |-> r]
    ELSE LET kf1 == IF name # None THEN [r.val EXCEPT !.name = name] ELSE r.val
             kf2 == IF desc # None THEN [kf1 EXCEPT !.description = desc] ELSE kf1
         IN  put(d, kf2, ts)

----------------------------------------------------------------------------
(* The other components at construction: no thread has called the handle,  *)
(* the engine and the codec have been given no record, the endpoint has    *)
(* served no request, no helper has been called                            *)

Threads == {"T1", "T2"}

NoJob == [op |-> "none", addr |-> "-", kf |-> None, name |-> None, desc |-> None,
          show |-> FALSE]

ThreadsIdle ==
    /\ pc = [t \in Threads |-> "idle"]
    /\ job = [t \in Threads |-> NoJob]
    /\ kfRead = [t \in Threads |-> None]
    /\ snap = [t \in Threads |-> None]
    /\ ret = [t \in Threads |-> None]
    /\ stable = [t \in Threads |-> {}]
    /\ stored = [a \in Addresses |-> {}]

CryptoIdle ==
    /\ cryptIn = None
    /\ cryptKf = None
    /\ cryptOut = None

CodecIdle ==
    /\ codecIn = None
    /\ codecOut = None

RpcIdle ==
    /\ req = None
    /\ reply = None
    /\ flushed = {}
    /\ upstream = <<>>
    /\ served = 0

UtilIdle ==
    /\ utilIn = None
    /\ utilOut = None

RestIdle == ThreadsIdle /\ CryptoIdle /\ CodecIdle /\ RpcIdle /\ UtilIdle

----------------------------------------------------------------------------
(* State machine: one caller on one DbStorage handle *)

\* last: the call that has just returned (NoCall when the handle is idle): its
\* arguments, whether a value was stored under its address when it was made,
\* and its result
Call(op, addr, kf, name, desc, show, had, res) ==
    [op |-> op, addr |-> addr, kf |-> kf, name |-> name, desc |-> desc,
     show |-> show, had |-> had, res |-> res]

NoCall == Call("new", "-", None, None, None, FALSE, FALSE, Ok(Unit))

Idle == last.op = "new"

EmptyDb == [a \in Addresses |-> None]

\* trail[a]: what the caller did to address a since its last put there:
\*   "put" (with the KeyFile put and the time of the put), then "hidden" after
\*   a hide, then "unhidden"
\*   after an unhide; "none" after anything else that writes to a
Trail(stage, kf) == [stage |-> stage, kf |-> kf]

NoTrail == [a \in Addresses |-> Trail("none", None)]

Init ==
    /\ db = EmptyDb
    /\ last = NoCall
    /\ trail = NoTrail
    /\ splitIn = None
    /\ splitOut = None
    /\ RestIdle

Put(kf, ts) ==
    LET r == put(db, kf, ts) IN
    /\ Idle
    /\ db' = r.db
    /\ last' = Call("put", kf.address, Some(kf), None, None, FALSE,
                    DbGet(db, kf.address) # None, r.res)
    /\ trail' = [trail EXCEPT ![kf.address] = Trail("put", Some([kf |-> kf, ts |-> ts]))]
    /\ UNCHANGED <<splitIn, splitOut, restVars>>

Delete(addr) ==
    LET r == delete(db, addr) IN
    /\ Idle
    /\ db' = r.db
    /\ last' = Call("delete", addr, None, None, None, FALSE,
                    DbGet(db, addr) # None, r.res)
    /\ trail' = [trail EXCEPT ![addr] = Trail("none", None)]
    /\ UNCHANGED <<splitIn, splitOut, restVars>>

Search(addr) ==
    /\ Idle
    /\ last' = Call("search_by_address", addr, None, None, None, FALSE,
                    DbGet(db, addr) # None, search_by_address(db, addr))
    /\ UNCHANGED <<db, trail, splitIn, splitOut, restVars>>

Hide(addr, ts) ==
    LET r == hide(db, addr, ts) IN
    /\ Idle
    /\ db' = r.db
    /\ last' = Call("hide", addr, None, None, None, FALSE,
                    DbGet(db, addr) # None, r.res)
    /\ trail' = [trail EXCEPT ![addr] =
                    IF trail[addr].stage = "put"
                    THEN Trail("hidden", None) ELSE Trail("none", None)]
    /\ UNCHANGED <<splitIn, splitOut, restVars>>

Unhide(addr, ts) ==
    LET r == unhide(db, addr, ts) IN
    /\ Idle
    /\ db' = r.db
    /\ last' = Call("unhide", addr, None, None, None, FALSE,
                    DbGet(db, addr) # None, r.res)
    /\ trail' = [trail EXCEPT ![addr] =
                    IF trail[addr].stage = "hidden"
                    THEN Trail("unhidden", None) ELSE Trail("none", None)]
    /\ UNCHANGED <<splitIn, splitOut, restVars>>

List(show_hidden) ==
    /\ Idle
    /\ last' = Call("list_accounts", "-", None, None, None, show_hidden, FALSE,
                    list_accounts(db, show_hidden))
    /\ UNCHANGED <<db, trail, splitIn, splitOut, restVars>>

Update(addr, name, desc, ts) ==
    LET r == update(db, addr, name, desc, ts) IN
    /\ Idle
    /\ db' = r.db
    /\ last' = Call("update", addr, None, name, desc, FALSE,
                    DbGet(db, addr) # None, r.res)
    /\ trail' = [trail EXCEPT ![addr] = Trail("none", None)]
    /\ UNCHANGED <<splitIn, splitOut, restVars>>

\* the caller takes the result of the call; the handle is idle again
Return ==
    /\ ~Idle
    /\ last' = NoCall
    /\ UNCHANGED <<db, trail, splitIn, splitOut, restVars>>

Next ==
    \/ \E kf \in KeyFiles, ts \in Timestamps : Put(kf, ts)
    \/ \E a \in Addresses : Delete(a)
    \/ \E a \in Addresses : Search(a)
    \/ \E a \in Addresses, ts \in Timestamps : Hide(a, ts)
    \/ \E a \in Addresses, ts \in Timestamps : Unhide(a, ts)
    \/ \E s \in Bool : List(s)
    \/ \E a \in Addresses, n \in Opt(Names), d \in Opt(Descriptions),
          ts \in Timestamps : Update(a, n, d, ts)
    \/ Return

Spec == Init /\ [][Next]_vars

----------------------------------------------------------------------------
(* The same handle opened on a directory whose database already holds      *)
(* values that DbStorage did not write (DB::open_default opens what is     *)
(* there, and the handle's db field is public)                             *)

BadValues ==
    { generate_filename("u1", "t1"),
      generate_filename("u1", "t1") \o SEPARATOR \o <<"{", "id">>,
      generate_filename("u1", "t1") \o SEPARATOR \o <<"xFF">> }

InitRaw ==
    /\ db \in [Addresses -> Opt(BadValues)]
    /\ last = NoCall
    /\ trail = NoTrail
    /\ splitIn = None
    /\ splitOut = None
    /\ RestIdle

SpecRaw == InitRaw /\ [][Next]_vars

----------------------------------------------------------------------------
(* DbStorage::split alone, on filename <|> text *)

TextChars == {"<", "|", ">", "x"}

SeqsUpTo(S, n) == UNION {[1..k -> S] : k \in 0..n}

HasSeparator(s) == \E i \in 1..Len(s) : StartsWith(s, i, SEPARATOR)

SplitFilenames == {f \in SeqsUpTo(TextChars, MaxFile) : ~HasSeparator(f)}

SplitTexts == SeqsUpTo(TextChars, MaxText)

InitSplit ==
    /\ db = EmptyDb
    /\ last = NoCall
    /\ trail = NoTrail
    /\ splitIn \in {Some([filename |-> f, json |-> j]) :
                       f \in SplitFilenames, j \in SplitTexts}
    /\ splitOut = None
    /\ RestIdle

SplitCall ==
    /\ splitIn # None
    /\ splitOut = None
    /\ splitOut' = Some(split(Some(splitIn[1].filename \o SEPARATOR \o splitIn[1].json)))
    /\ UNCHANGED <<db, last, trail, splitIn, restVars>>

NextSplit == SplitCall

\* the storage machine, and split applied alone
SpecStorageAndSplit ==
    (Init \/ InitSplit) /\ [][(splitIn = None /\ Next) \/ NextSplit]_vars

----------------------------------------------------------------------------
(* Two threads on one DbStorage handle.  Every method takes &self and holds *)
(* no lock; each RocksDB call (get, put, delete) is atomic, and an iterator *)
(* reads the database as it was when the iterator was created.  A thread    *)
(* makes one call.                                                          *)

\* a storage filled by earlier puts, made before the threads start
SeedKeyFiles(a) == {MkKeyFile("u1", a, v, None, None) : v \in {None, Some(FALSE)}}

SeedValues(a) ==
    {put(EmptyDb, kf, ts).db[a][1] : kf \in SeedKeyFiles(a), ts \in Timestamps}

SeedStorages ==
    {d \in [Addresses -> Opt(UNION {SeedValues(a) : a \in Addresses})] :
        \A a \in Addresses : d[a] # None => d[a][1] \in SeedValues(a)}

Job(op, addr, kf, name, desc, show) ==
    [op |-> op, addr |-> addr, kf |-> kf, name |-> name, desc |-> desc,
     show |-> show]

\* the values ever stored under each address
Remember(d) ==
    [a \in Addresses |-> stored[a] \cup (IF d[a] # None THEN {d[a][1]} ELSE {})]

\* a write that makes the storage d: a listing in progress no longer counts the
\* addresses whose value differs from the one its iterator reads
Written(d) ==
    /\ db' = d
    /\ stored' = Remember(d)
    /\ stable' = [u \in Threads |->
                     IF pc[u] = "listing"
                     THEN {a \in stable[u] : d[a] = snap[u][1][a]}
                     ELSE stable[u]]

InitThreads ==
    /\ db \in SeedStorages
    /\ last = NoCall
    /\ trail = NoTrail
    /\ splitIn = None
    /\ splitOut = None
    /\ pc = [t \in Threads |-> "idle"]
    /\ job = [t \in Threads |-> NoJob]
    /\ kfRead = [t \in Threads |-> None]
    /\ snap = [t \in Threads |-> None]
    /\ ret = [t \in Threads |-> None]
    /\ stable = [t \in Threads |-> {}]
    /\ stored = [a \in Addresses |-> IF db[a] # None THEN {db[a][1]} ELSE {}]
    /\ CryptoIdle /\ CodecIdle /\ RpcIdle /\ UtilIdle

threadRest == <<last, trail, splitIn, splitOut, cryptoVars, codecVars, rpcVars,
               utilVars>>

\* put: one db.put
TPut(t, kf, ts) ==
    LET r == put(db, kf, ts) IN
    /\ pc[t] = "idle"
    /\ Written(r.db)
    /\ job' = [job EXCEPT ![t] = Job("put", kf.address, Some(kf), None, None, FALSE)]
    /\ ret' = [ret EXCEPT ![t] = Some(r.res)]
    /\ pc' = [pc EXCEPT ![t] = "done"]
    /\ UNCHANGED <<kfRead, snap, threadRest>>

\* delete: one db.delete
TDelete(t, addr) ==
    LET r == delete(db, addr) IN
    /\ pc[t] = "idle"
    /\ Written(r.db)
    /\ job' = [job EXCEPT ![t] = Job("delete", addr, None, None, None, FALSE)]
    /\ ret' = [ret EXCEPT ![t] = Some(r.res)]
    /\ pc' = [pc EXCEPT ![t] = "done"]
    /\ UNCHANGED <<kfRead, snap, threadRest>>

\* hide, unhide and update begin with search_by_address (one db.get): the
\* KeyFile read is the thread's own; an error ends the call
ReadFor(t, j) ==
    LET r == search_by_address(db, j.addr) IN
    /\ pc[t] = "idle"
    /\ job' = [job EXCEPT ![t] = j]
    /\ IF IsOk(r)
       THEN /\ kfRead' = [kfRead EXCEPT ![t] = Some(r.val)]
            /\ pc' = [pc EXCEPT ![t] = "write"]
            /\ ret' = ret
       ELSE /\ kfRead' = kfRead
            /\ pc' = [pc EXCEPT ![t] = "done"]
            /\ ret' = [ret EXCEPT ![t] = Some(r)]
    /\ UNCHANGED <<db, snap, stable, stored, threadRest>>

THideRead(t, addr) == ReadFor(t, Job("hide", addr, None, None, None, FALSE))

TUnhideRead(t, addr) == ReadFor(t, Job("unhide", addr, None, None, None, FALSE))

TUpdateRead(t, addr, name, desc) ==
    ReadFor(t, Job("update", addr, None, name, desc, FALSE))

\* hide and unhide end with the put of the KeyFile read, visible set
THideWrite(t, ts) ==
    LET r == put(db, [kfRead[t][1] EXCEPT !.visible = Some(FALSE)], ts) IN
    /\ pc[t] = "write" /\ job[t].op = "hide"
    /\ Written(r.db)
    /\ ret' = [ret EXCEPT ![t] = Some(IF IsOk(r.res) THEN Ok(TRUE) ELSE r.res)]
    /\ pc' = [pc EXCEPT ![t] = "done"]
    /\ UNCHANGED <<job, kfRead, snap, threadRest>>

TUnhideWrite(t, ts) ==
    LET r == put(db, [kfRead[t][1] EXCEPT !.visible = Some(TRUE)], ts) IN
    /\ pc[t] = "write" /\ job[t].op = "unhide"
    /\ Written(r.db)
    /\ ret' = [ret EXCEPT ![t] = Some(IF IsOk(r.res) THEN Ok(TRUE) ELSE r.res)]
    /\ pc' = [pc EXCEPT ![t] = "done"]
    /\ UNCHANGED <<job, kfRead, snap, threadRest>>

\* update ends with the put of the KeyFile read, the supplied fields set
TUpdateWrite(t, ts) ==
    LET kf0 == kfRead[t][1]
        kf1 == IF job[t].name # None THEN [kf0 EXCEPT !.name = job[t].name] ELSE kf0
        kf2 == IF job[t].desc # None
               THEN [kf1 EXCEPT !.description = job[t].desc] ELSE kf1
        r == put(db, kf2, ts)
    IN  /\ pc[t] = "write" /\ job[t].op = "update"
        /\ Written(r.db)
        /\ ret' = [ret EXCEPT ![t] = Some(r.res)]
        /\ pc' = [pc EXCEPT ![t] = "done"]
        /\ UNCHANGED <<job, kfRead, snap, threadRest>>

\* list_accounts creates the iterator, which reads the storage as it is now
TListStart(t, show_hidden) ==
    /\ pc[t] = "idle"
    /\ job' = [job EXCEPT ![t] = Job("list_accounts", "-", None, None, None, show_hidden)]
    /\ snap' = [snap EXCEPT ![t] = Some(db)]
    /\ stable' = [stable EXCEPT ![t] = {a \in Addresses : db[a] # None}]
    /\ pc' = [pc EXCEPT ![t] = "listing"]
    /\ UNCHANGED <<db, kfRead, ret, stored, threadRest>>

\* list_accounts walks the iterator to its end and returns
TListEnd(t) ==
    /\ pc[t] = "listing"
    /\ ret' = [ret EXCEPT ![t] = Some(list_accounts(snap[t][1], job[t].show))]
    /\ pc' = [pc EXCEPT ![t] = "done"]
    /\ UNCHANGED <<db, job, kfRead, snap, stable, stored, threadRest>>

NextThreads ==
    \E t \in Threads :
        \/ \E kf \in KeyFiles, ts \in Timestamps : TPut(t, kf, ts)
        \/ \E a \in Addresses : TDelete(t, a)
        \/ \E a \in Addresses : THideRead(t, a)
        \/ \E a \in Addresses : TUnhideRead(t, a)
        \/ \E a \in Addresses, n \in Opt(Names), d \in Opt(Descriptions) :
              TUpdateRead(t, a, n, d)
        \/ \E ts \in Timestamps : THideWrite(t, ts)
        \/ \E ts \in Timestamps : TUnhideWrite(t, ts)
        \/ \E ts \in Timestamps : TUpdateWrite(t, ts)
        \/ \E sh \in Bool : TListStart(t, sh)
        \/ TListEnd(t)

SpecThreads == InitThreads /\ [][NextThreads]_vars

----------------------------------------------------------------------------
(* Derivation and cipher engine: derive, encrypt, decrypt.  A byte is 0 or  *)
(* 1; scrypt, PBKDF2 and Keccak-256 are taken to be free of collisions, so  *)
(* their outputs are the tagged tuples of their inputs; AES-128-CTR adds a  *)
(* key stream, a function of key and iv, to the text byte by byte.          *)

Passwords == {"", "1234567890", "_"}

Salts == {0, 1}

Ivs == {0, 1}

Secrets == [1..SecretLen -> {0, 1}]

MacMismatch == "MacMismatch"

PwCode(p) == IF p = "" THEN 0 ELSE IF p = "1234567890" THEN 1 ELSE 3

KdfCode(k) == IF k = "scrypt" THEN 0 ELSE 1

\* derive(password, kdf, salt): dk[0..16] and dk[16..32]
derive(password, kdf, salt) ==
    [lo |-> <<"dk0", password, kdf, salt>>, hi |-> <<"dk16", password, kdf, salt>>]

\* byte i of the key stream of AES-128-CTR under key and iv
KeyStream(key, iv, i) ==
    ((IF key[1] = "dk0" THEN 0 ELSE 1) + (PwCode(key[2]) \div 2) + PwCode(key[2])
       + KdfCode(key[3]) + key[4] + iv + i) % 2

\* AES-128-CTR: encryption and decryption are the same operation
Aes128Ctr(key, iv, text) ==
    [i \in 1..Len(text) |-> (text[i] + KeyStream(key, iv, i)) % 2]

Keccak256(data) == <<"keccak256", data>>

MacOf(dk, cipher_text) == Keccak256(<<dk.hi, cipher_text>>)

encrypt(password, kdf, plaintext, salt, iv) ==
    LET dk == derive(password, kdf, salt)
        cipher_text == Aes128Ctr(dk.lo, iv, plaintext)
    IN  [kdf |-> kdf, kdf_salt |-> salt, cipher_iv |-> iv,
         cipher_text |-> cipher_text, keccak256_mac |-> MacOf(dk, cipher_text)]

\* decrypt as it would be with the cipher run before, and whatever, the MAC test
decrypt_NoMacCheck(password, kf) ==
    LET dk == derive(password, kf.kdf, kf.kdf_salt) IN
    [res |-> Ok(Aes128Ctr(dk.lo, kf.cipher_iv, kf.cipher_text)), cipher_runs |-> 1]

\* decrypt as it would be with the cipher keyed by dk[16..32]
decrypt_MacHalfKey(password, kf) ==
    LET dk == derive(password, kf.kdf, kf.kdf_salt) IN
    IF MacOf(dk, kf.cipher_text) # kf.keccak256_mac
    THEN [res |-> Err(MacMismatch), cipher_runs |-> 0]
    ELSE [res |-> Ok(Aes128Ctr(dk.hi, kf.cipher_iv, kf.cipher_text)), cipher_runs |-> 1]

\* decrypt(password, keyfile): the result, and how many times the cipher ran
decrypt(password, kf) ==
    LET dk == derive(password, kf.kdf, kf.kdf_salt) IN
    IF MacOf(dk, kf.cipher_text) # kf.keccak256_mac
    THEN [res |-> Err(MacMismatch), cipher_runs |-> 0]
    ELSE [res |-> Ok(Aes128Ctr(dk.lo, kf.cipher_iv, kf.cipher_text)), cipher_runs |-> 1]

\* KeyFile::extract_key(password)
extract_key(kf, password) == decrypt(password, kf).res

\* the record under test: the password and secret it is made from, and whether
\* it was changed after it was made
CryptIns ==
    {[password |-> p, kdf |-> k, secret |-> x, salt |-> s, iv |-> v, tampered |-> FALSE] :
        p \in Passwords, k \in Kdfs, x \in Secrets, s \in Salts, v \in Ivs}

InitCrypto ==
    /\ db = EmptyDb
    /\ last = NoCall
    /\ trail = NoTrail
    /\ splitIn = None
    /\ splitOut = None
    /\ cryptIn \in {Some(c) : c \in CryptIns}
    /\ cryptKf = None
    /\ cryptOut = None
    /\ ThreadsIdle /\ CodecIdle /\ RpcIdle /\ UtilIdle

cryptoRest == <<db, last, trail, splitIn, splitOut, threadVars, codecVars, rpcVars,
               utilVars>>

Encrypt ==
    /\ cryptIn # None /\ cryptKf = None
    /\ cryptKf' = Some(encrypt(cryptIn[1].password, cryptIn[1].kdf, cryptIn[1].secret,
                               cryptIn[1].salt, cryptIn[1].iv))
    /\ UNCHANGED <<cryptIn, cryptOut, cryptoRest>>

\* the stored record is changed by someone without the password: one byte of
\* cipher_text
TamperText(i) ==
    /\ cryptKf # None /\ cryptOut = None /\ ~cryptIn[1].tampered
    /\ i \in 1..Len(cryptKf[1].cipher_text)
    /\ cryptKf' = Some([cryptKf[1] EXCEPT !.cipher_text[i] = 1 - @])
    /\ cryptIn' = Some([cryptIn[1] EXCEPT !.tampered = TRUE])
    /\ UNCHANGED <<cryptOut, cryptoRest>>

\* ... or the mac
TamperMac ==
    /\ cryptKf # None /\ cryptOut = None /\ ~cryptIn[1].tampered
    /\ cryptKf' = Some([cryptKf[1] EXCEPT !.keccak256_mac = Keccak256(<<>>)])
    /\ cryptIn' = Some([cryptIn[1] EXCEPT !.tampered = TRUE])
    /\ UNCHANGED <<cryptOut, cryptoRest>>

Decrypt(password) ==
    /\ cryptKf # None /\ cryptOut = None
    /\ cryptOut' = Some([password |-> password] @@ decrypt(password, cryptKf[1]))
    /\ UNCHANGED <<cryptIn, cryptKf, cryptoRest>>

NextCrypto ==
    \/ Encrypt
    \/ \E i \in 1..SecretLen : TamperText(i)
    \/ TamperMac
    \/ \E p \in Passwords : Decrypt(p)

SpecCrypto == InitCrypto /\ [][NextCrypto]_vars

----------------------------------------------------------------------------
(* The KeyFile codec alone: json::encode, then json::decode of its output *)

\* KeyFiles with and without address, with no name, an empty one or another
CodecKeyFiles ==
    {MkKeyFile(u, a, v, n, d) :
        u \in Uuids, a \in Addresses \cup {NoAddress}, v \in Opt(Bool),
        n \in Opt(Names \cup {<<>>}), d \in Opt(Descriptions)}

InitCodec ==
    /\ db = EmptyDb
    /\ last = NoCall
    /\ trail = NoTrail
    /\ splitIn = None
    /\ splitOut = None
    /\ codecIn \in {Some(kf) : kf \in CodecKeyFiles}
    /\ codecOut = None
    /\ ThreadsIdle /\ CryptoIdle /\ RpcIdle /\ UtilIdle

codecRest == <<db, last, trail, splitIn, splitOut, threadVars, cryptoVars, rpcVars,
              utilVars>>

\* json::encode(&key)
Encode ==
    /\ codecIn # None /\ codecOut = None
    /\ codecOut' = Some([json |-> encode(codecIn[1]), key |-> None])
    /\ UNCHANGED <<codecIn, codecRest>>

\* json::decode::<KeyFile>(&json)
Decode ==
    /\ codecOut # None /\ codecOut[1].key = None
    /\ codecOut' = Some([codecOut[1] EXCEPT !.key = Some(decode(codecOut[1].json))])
    /\ UNCHANGED <<codecIn, codecRest>>

NextCodec == Encode \/ Decode

SpecCodec == InitCodec /\ [][NextCodec]_vars

----------------------------------------------------------------------------
(* JSON-RPC endpoint (rpc/mod.rs, start): the callbacks of                  *)
(* eth_sendTransaction, backend_importWallet and personal_newAccount, and   *)
(* the methods passed on to the upstream client.  What the callbacks call   *)
(* outside rpc/mod.rs (KeyFile::new, decrypt_key, decrypt_address, flush,   *)
(* Transaction::try_from) is given by its result: any result it can have.   *)

\* serde_json::Value
JNull == [type |-> "Null", text |-> <<>>]

JString(str) == [type |-> "String", text |-> str]

\* an object, given by its JSON text
JObject(text) == [type |-> "Object", text |-> text]

\* Value::to_string: the JSON text of the value (a string is quoted)
to_string(v) ==
    IF v.type = "String" THEN EncStr(v.text)
    ELSE IF v.type = "Object" THEN v.text
    ELSE <<"null">>

as_str(v) == IF v.type = "String" THEN Some(v.text) ELSE None

\* jsonrpc_core::Params parsed as a Value: an array of values, an object (of
\* which the members account, name and description are read), or none
ArrayParams(items) ==
    [type |-> "Array", items |-> items, account |-> None, name |-> None,
     description |-> None]

MapParams(account, name, description) ==
    [type |-> "Map", items |-> <<>>, account |-> account, name |-> name,
     description |-> description]

NoParams ==
    [type |-> "None", items |-> <<>>, account |-> None, name |-> None,
     description |-> None]

\* replies of a callback; a panic unwinds the callback, which replies nothing
Result(v) == [kind |-> "result", val |-> v]

ErrorReply(code, msg) == [kind |-> "error", val |-> <<code, msg>>]

Panic == [kind |-> "panic", val |-> <<>>]

\* the future returned by url.request: the reply is the upstream client's
Forwarded == [kind |-> "upstream", val |-> <<>>]

\* Address::default() and Address::to_string
DefaultAddress == "0000"

AddrString(a) == <<"0x", a>>

\* Transaction::try_from(&p): the first parameter is the transaction object
TxText(from) == <<"{", "from", from, "}">>

try_from(p) ==
    IF /\ p.type = "Array" /\ Len(p.items) >= 1 /\ p.items[1].type = "Object"
       /\ \E a \in Addresses : p.items[1].text = TxText(a)
    THEN Ok([from |-> p.items[1].text[3]])
    ELSE Err("InvalidTransaction")

\* the private key KeyFile::default().decrypt_key("") gives when it gives one
DefaultKey == "key-of-default"

\* the secret a stored KeyFile encrypts
SecretOf(kf) == <<"key-of", kf.uuid>>

\* tr.to_raw_params(pk): the raw transaction tr signed with pk
to_raw_params(tr, pk) == [tx |-> tr, signed_with |-> pk]

\* What a callback does: its reply, the arguments of the flush it calls (if
\* it calls one) and the request it sends upstream (if it sends one)
Done(r, flush, sent) == [reply |-> r, flush |-> flush, sent |-> sent]

\* rpc/mod.rs:126-137; pk is the result of KeyFile::default().decrypt_key("")
eth_sendTransaction(p, pk) ==
    LET tr == try_from(p) IN
    IF IsOk(tr)
    THEN IF IsOk(pk)
         THEN Done(Forwarded, None,
                   Some([method |-> "EthSendRawTransaction",
                         params |-> to_raw_params(tr.val, pk.val)]))
         ELSE Done(Panic, None, None)
    ELSE Done(ErrorReply("invalid_params", tr.val), None, None)

\* rpc/mod.rs:165-196; flush_res is the result of kf.flush
import_callback(p, flush_res) ==
    IF p.type # "Map" THEN Done(Panic, None, None)
    ELSE IF p.account = None THEN Done(Panic, None, None)
    ELSE LET kf == decode(to_string(p.account[1]))
             name == IF p.name # None THEN Some(to_string(p.name[1])) ELSE None
             descr == IF p.description # None
                      THEN Some(to_string(p.description[1])) ELSE None
             addr == AddrString(DefaultAddress)
         IN  IF IsOk(kf)
             THEN Done(IF IsOk(flush_res) THEN Result(addr)
                       ELSE ErrorReply("internal_error", ""),
                       Some([kf |-> kf.val, addr |-> None, name |-> name,
                             descr |-> descr]),
                       None)
             ELSE Done(ErrorReply("invalid_params", "Invalid Keyfile data format"),
                       None, None)

\* create_callback as it would be with the flush made before the address is
\* looked at, and without it
create_callback_FlushFirst(p, new_res, addr_res, flush_res) ==
    IF p.type = "Array"
    THEN IF Len(p.items) = 0 THEN Done(Panic, None, None)
         ELSE IF as_str(p.items[1]) = None THEN Done(Panic, None, None)
         ELSE IF IsOk(new_res)
              THEN LET call == Some([kf |-> new_res.val, addr |-> None,
                                     name |-> None, descr |-> None])
                   IN  IF ~IsOk(addr_res)
                       THEN Done(ErrorReply("internal_error", ""), call, None)
                       ELSE Done(IF IsOk(flush_res) THEN Result(AddrString(addr_res.val))
                                 ELSE ErrorReply("internal_error", ""),
                                 call, None)
              ELSE Done(ErrorReply("invalid_params", "Invalid Keyfile data format"),
                        None, None)
    ELSE Done(ErrorReply("invalid_params", "Invalid JSON object"), None, None)

\* rpc/mod.rs:203-231; new_res, addr_res and flush_res are the results of
\* KeyFile::new, kf.decrypt_address and kf.flush
create_callback(p, new_res, addr_res, flush_res) ==
    IF p.type = "Array"
    THEN IF Len(p.items) = 0 THEN Done(Panic, None, None)
         ELSE IF as_str(p.items[1]) = None THEN Done(Panic, None, None)
         ELSE IF IsOk(new_res)
              THEN IF ~IsOk(addr_res)
                   THEN Done(ErrorReply("internal_error", ""), None, None)
                   ELSE Done(IF IsOk(flush_res) THEN Result(AddrString(addr_res.val))
                             ELSE ErrorReply("internal_error", ""),
                             Some([kf |-> new_res.val, addr |-> Some(addr_res.val),
                                   name |-> None, descr |-> None]),
                             None)
              ELSE Done(ErrorReply("invalid_params", "Invalid Keyfile data format"),
                        None, None)
    ELSE Done(ErrorReply("invalid_params", "Invalid JSON object"), None, None)

\* the passwords of the callers
RpcPasswords == {<<"1234567890">>, <<"_">>}

\* KeyFile::new(passwd, &sec): a KeyFile with a fresh uuid
NewKeyFiles == {MkKeyFile(u, NoAddress, None, None, None) : u \in Uuids}

\* the address of the secret a new KeyFile encrypts
AddressOfKey(kf) == IF kf.uuid = "u1" THEN "A1" ELSE "A2"

\* the keyfiles a wallet is imported from
ImportKeyFiles ==
    {MkKeyFile(u, a, None, None, None) : u \in Uuids, a \in {"A1", NoAddress}}

ImportParams ==
    {MapParams(acc, n, d) :
        acc \in {None, Some(JString(<<"x">>)), Some(JObject(<<"{", "}">>))}
                \cup {Some(JObject(encode(kf))) : kf \in ImportKeyFiles},
        n \in {None, Some(JString(<<"n">>))},
        d \in {None, Some(JString(<<"d">>))}}
    \cup {ArrayParams(<<>>), NoParams}

CreateParams ==
    {ArrayParams(items) :
        items \in {<<>>, <<JNull>>} \cup {<<JString(pw)>> : pw \in RpcPasswords}}
    \cup {MapParams(None, None, None), NoParams}

SendParams ==
    {ArrayParams(<<JObject(TxText(a)), JString(pw)>>) :
        a \in Addresses, pw \in RpcPasswords}
    \cup {ArrayParams(<<JObject(<<"{", "}">>)>>), NoParams}

\* the methods passed on to the upstream client as they are
PassedOn == {"eth_accounts", "eth_sendRawTransaction"}

\* a request served, with the results of the calls its callback made
Request(method, p, pk, new_res, addr_res, flush_res) ==
    [method |-> method, params |-> p, pk |-> pk, new_res |-> new_res,
     addr_res |-> addr_res, flush_res |-> flush_res]

InitRpc ==
    /\ db = EmptyDb
    /\ last = NoCall
    /\ trail = NoTrail
    /\ splitIn = None
    /\ splitOut = None
    /\ req = None
    /\ reply = None
    /\ flushed = {}
    /\ upstream = <<>>
    /\ served = 0
    /\ ThreadsIdle /\ CryptoIdle /\ CodecIdle /\ UtilIdle

rpcRest == <<db, last, trail, splitIn, splitOut, threadVars, cryptoVars, codecVars,
            utilVars>>

\* the effect of a callback that did r: the flush writes a keyfile when it
\* succeeds (passwd: the password the keyfile was made under, when known)
Served(r, flush_res, passwd) ==
    /\ served < MaxRequests
    /\ served' = served + 1
    /\ reply' = Some(r.reply)
    /\ flushed' = IF r.flush # None /\ IsOk(flush_res)
                  THEN flushed \cup {[kf |-> r.flush[1].kf, addr |-> r.flush[1].addr,
                                      name |-> r.flush[1].name,
                                      descr |-> r.flush[1].descr, passwd |-> passwd]}
                  ELSE flushed
    /\ upstream' = IF r.sent # None THEN Append(upstream, r.sent[1]) ELSE upstream
    /\ UNCHANGED rpcRest

SendTransaction(p, pk) ==
    /\ req' = Some(Request("eth_sendTransaction", p, pk, Ok(Unit), Ok(Unit), Ok(Unit)))
    /\ Served(eth_sendTransaction(p, pk), Ok(Unit), None)

ImportWallet(p, flush_res) ==
    /\ req' = Some(Request("backend_importWallet", p, Ok(Unit), Ok(Unit), Ok(Unit),
                           flush_res))
    /\ Served(import_callback(p, flush_res), flush_res, None)

NewAccount(p, new_res, addr_res, flush_res) ==
    /\ req' = Some(Request("personal_newAccount", p, Ok(Unit), new_res, addr_res,
                           flush_res))
    /\ Served(create_callback(p, new_res, addr_res, flush_res), flush_res,
              IF p.type = "Array" /\ Len(p.items) > 0 THEN as_str(p.items[1]) ELSE None)

\* url.request(&MethodParams(method, &p))
PassOn(method, p) ==
    /\ req' = Some(Request(method, p, Ok(Unit), Ok(Unit), Ok(Unit), Ok(Unit)))
    /\ Served(Done(Forwarded, None, Some([method |-> method, params |-> p])),
              Ok(Unit), None)

NextRpc ==
    \/ \E p \in SendParams, pk \in {Ok(DefaultKey), Err(MacMismatch)} :
          SendTransaction(p, pk)
    \/ \E p \in ImportParams, flush_res \in {Ok(Unit), Err("IoError")} :
          ImportWallet(p, flush_res)
    \/ \E p \in CreateParams, made \in Bool, kf \in NewKeyFiles,
          flush_res \in {Ok(Unit), Err("IoError")} :
          LET new_res == IF made THEN Ok(kf) ELSE Err("Crypto") IN
          \E addr_res \in (IF made THEN {Ok(AddressOfKey(kf))} ELSE {})
                          \cup {Err(MacMismatch)} :
              NewAccount(p, new_res, addr_res, flush_res)
    \/ \E m \in PassedOn : PassOn(m, NoParams)

SpecRpc == InitRpc /\ [][NextRpc]_vars

----------------------------------------------------------------------------
(* src/util/mod.rs: byte and integer helpers.  A byte is a number in       *)
(* 0..255; a u64 (and a usize) is <<w1, w2, w3, w4>>, four 16-bit words    *)
(* with w1 the most significant.                                           *)

Bytes == {0, 1, 255}

Words == {0, 1, 255, 256, 65535}

U64s == [1..4 -> Words]

\* a call that returned v, and a call that panicked
Returned(v) == [panicked |-> FALSE, val |-> v]

Panicked == [panicked |-> TRUE, val |-> <<>>]

\* vec![0u8; len - data.len()] followed by data; the subtraction of usize
\* values overflows when len < data.len(), and no vector is built
align_bytes(data, len) ==
    IF len < Len(data) THEN Panicked
    ELSE Returned([i \in 1..(len - Len(data)) |-> 0] \o data)

\* the loop of trim_bytes: n counts the leading zero bytes
RECURSIVE LeadingZeros(_, _)
LeadingZeros(data, n) ==
    IF n < Len(data) /\ data[n + 1] = 0 THEN LeadingZeros(data, n + 1) ELSE n

\* trim_bytes as it would be if it kept one byte of an all-zero slice
trim_bytes_KeepOne(data) ==
    LET n == LeadingZeros(data, 0) IN
    IF n = Len(data) /\ n > 0 THEN <<0>> ELSE SubSeq(data, n + 1, Len(data))

trim_bytes(data) == SubSeq(data, LeadingZeros(data, 0) + 1, Len(data))

\* ReadBytesExt::read_u64::<BigEndian> on a cursor over 8 bytes
read_u64(buf) == [i \in 1..4 |-> buf[2 * i - 1] * 256 + buf[2 * i]]

to_u64(v) ==
    LET data == align_bytes(v, 8) IN
    IF data.panicked THEN Panicked ELSE Returned(read_u64(data.val))

\* the casts x as u8, x as u16, x as u32 of a u64
as_u8(x) == x[4] % 256

as_u16(x) == x[4]

as_u32(x) == <<x[3], x[4]>>

\* WriteBytesExt::write_u16 / write_u32 / write_u64 ::<BigEndian>
write_u16(v) == <<v \div 256, v % 256>>

write_u32(v) == write_u16(v[1]) \o write_u16(v[2])

write_u64(x) == write_u32(<<x[1], x[2]>>) \o write_u32(<<x[3], x[4]>>)

\* to_bytes as it would be if the one-byte case wrote two bytes
to_bytes_WideU8(x, len) ==
    CASE len = 1 -> write_u16(as_u16(x))
      [] len = 2 -> write_u16(as_u16(x))
      [] len = 4 -> write_u32(as_u32(x))
      [] len = 8 -> write_u64(x)
      [] OTHER -> <<>>

to_bytes(x, len) ==
    CASE len = 1 -> <<as_u8(x)>>
      [] len = 2 -> write_u16(as_u16(x))
      [] len = 4 -> write_u32(as_u32(x))
      [] len = 8 -> write_u64(x)
      [] OTHER -> <<>>

\* x > n for a usize x and a constant n below 2^16
Exceeds(x, n) == x[1] # 0 \/ x[2] # 0 \/ x[3] # 0 \/ x[4] > n

\* x >> 8
Shr8(x) ==
    [i \in 1..4 |-> (IF i = 1 THEN 0 ELSE (x[i - 1] % 256) * 256) + (x[i] \div 256)]

\* rlp_bytes_count as it would be if it shifted by 16 bits
RECURSIVE rlp_bytes_count_Shr16(_)
rlp_bytes_count_Shr16(x) ==
    IF Exceeds(x, 255) THEN 1 + rlp_bytes_count_Shr16(Shr8(Shr8(x)))
    ELSE IF Exceeds(x, 0) THEN 1
    ELSE 0

RECURSIVE rlp_bytes_count(_)
rlp_bytes_count(x) ==
    IF Exceeds(x, 255) THEN 1 + rlp_bytes_count(Shr8(x))
    ELSE IF Exceeds(x, 0) THEN 1
    ELSE 0

\* a call of a helper: the function and its arguments
UtilCall(fn, data, len, x) == [fn |-> fn, data |-> data, len |-> len, x |-> x]

NoBytes == <<>>

ZeroU64 == [i \in 1..4 |-> 0]

\* the slices to_u64 is given: the tails of 8-byte values, and one of 9 bytes
Slices ==
    {SubSeq(write_u64(x), i, 8) : x \in U64s, i \in 1..9}
    \cup {<<1>> \o write_u64(ZeroU64)}

UtilCalls ==
    {UtilCall("align_bytes", d, n, ZeroU64) :
        d \in SeqsUpTo(Bytes, MaxData), n \in 0..MaxAlign}
    \cup {UtilCall("trim_bytes", d, 0, ZeroU64) : d \in SeqsUpTo(Bytes, MaxData)}
    \cup {UtilCall("to_u64", d, 0, ZeroU64) : d \in Slices}
    \cup {UtilCall("to_bytes", NoBytes, n, x) : n \in 0..9, x \in U64s}
    \cup {UtilCall("rlp_bytes_count", NoBytes, 0, x) : x \in U64s}

InitUtil ==
    /\ db = EmptyDb
    /\ last = NoCall
    /\ trail = NoTrail
    /\ splitIn = None
    /\ splitOut = None
    /\ utilIn \in {Some(c) : c \in UtilCalls}
    /\ utilOut = None
    /\ ThreadsIdle /\ CryptoIdle /\ CodecIdle /\ RpcIdle

utilRest == <<db, last, trail, splitIn, splitOut, threadVars, cryptoVars, codecVars,
             rpcVars>>

\* a helper is called with the arguments of utilIn; utilOut is what it returns
AlignBytes ==
    /\ utilIn[1].fn = "align_bytes"
    /\ utilOut = None
    /\ utilOut' = Some(align_bytes(utilIn[1].data, utilIn[1].len))
    /\ UNCHANGED <<utilIn, utilRest>>

TrimBytes ==
    /\ utilIn[1].fn = "trim_bytes"
    /\ utilOut = None
    /\ utilOut' = Some(trim_bytes(utilIn[1].data))
    /\ UNCHANGED <<utilIn, utilRest>>

ToU64 ==
    /\ utilIn[1].fn = "to_u64"
    /\ utilOut = None
    /\ utilOut' = Some(to_u64(utilIn[1].data))
    /\ UNCHANGED <<utilIn, utilRest>>

ToBytes ==
    /\ utilIn[1].fn = "to_bytes"
    /\ utilOut = None
    /\ utilOut' = Some(to_bytes(utilIn[1].x, utilIn[1].len))
    /\ UNCHANGED <<utilIn, utilRest>>

RlpBytesCount ==
    /\ utilIn[1].fn = "rlp_bytes_count"
    /\ utilOut = None
    /\ utilOut' = Some(rlp_bytes_count(utilIn[1].x))
    /\ UNCHANGED <<utilIn, utilRest>>

NextUtil ==
    \/ AlignBytes
    \/ TrimBytes
    \/ ToU64
    \/ ToBytes
    \/ RlpBytesCount

SpecUtil == InitUtil /\ [][NextUtil]_vars

----------------------------------------------------------------------------
(* Properties *)

\* the record the storage holds at address a, as search_by_address reads it
StoredAt(a) == search_by_address(db, a)

\* the positions of a listing that carry address a
Entries(res, a) == {i \in 1..Len(res.val) : res.val[i].address = a}

Listed(res, a) == Entries(res, a) # {}

IsErr(r, e) == r.tag = "Err" /\ r.val = e

\* C1: a search_by_address(A) that follows put(k) with k.address = A, with no
\* other write to A in between, returns Ok with a KeyFile equal to k in all
\* fields.
C1_PutThenSearch ==
    \A a \in Addresses :
        (last.op = "search_by_address" /\ last.addr = a /\ trail[a].stage = "put")
            => (IsOk(last.res) /\ last.res.val = trail[a].kf[1].kf)

C1_Witness ==
    /\ last.op = "search_by_address"
    /\ trail[last.addr].stage = "put"
    /\ trail[last.addr].kf[1].kf.name # None
    /\ trail[last.addr].kf[1].kf.visible = Some(FALSE)
    /\ IsOk(last.res)

\* C2: list_accounts(show_hidden = false) succeeds, returns no AccountInfo of a
\* record with visible == Some(false), and returns an AccountInfo for every
\* record whose visible is absent or Some(true).
C2_HiddenNotListed ==
    (last.op = "list_accounts" /\ ~last.show) =>
        /\ IsOk(last.res)
        /\ \A i \in 1..Len(last.res.val) : last.res.val[i].visible # Some(FALSE)
        /\ \A a \in Addresses :
              IsOk(StoredAt(a)) =>
                  (Listed(last.res, a) <=> StoredAt(a).val.visible # Some(FALSE))

C2_Witness ==
    /\ last.op = "list_accounts" /\ ~last.show /\ IsOk(last.res)
    /\ Len(last.res.val) = 1
    /\ \E a \in Addresses :
          IsOk(StoredAt(a)) /\ StoredAt(a).val.visible = Some(FALSE)
    /\ \E a \in Addresses :
          IsOk(StoredAt(a)) /\ StoredAt(a).val.visible = Some(TRUE)

\* C3: after put(k), hide(k.address) returns true, and then list_accounts(false)
\* has no entry for k.address while list_accounts(true) has one; then
\* unhide(k.address) returns true, and then list_accounts(false) has an entry
\* for k.address again.
C3_HideUnhideScenario ==
    \A a \in Addresses :
        /\ (last.op = "hide" /\ last.addr = a /\ trail[a].stage = "hidden")
              => (IsOk(last.res) /\ last.res.val = TRUE)
        /\ (last.op = "unhide" /\ last.addr = a /\ trail[a].stage = "unhidden")
              => (IsOk(last.res) /\ last.res.val = TRUE)
        /\ (last.op = "list_accounts" /\ trail[a].stage = "hidden")
              => (IsOk(last.res) /\ (Listed(last.res, a) <=> last.show))
        /\ (last.op = "list_accounts" /\ trail[a].stage = "unhidden")
              => (IsOk(last.res) /\ Listed(last.res, a))

C3_Witness ==
    /\ last.op = "list_accounts" /\ ~last.show /\ IsOk(last.res)
    /\ \E a \in Addresses : trail[a].stage = "unhidden" /\ Listed(last.res, a)
    /\ \E a \in Addresses : trail[a].stage = "hidden" /\ ~Listed(last.res, a)

\* C4: put is idempotent by address: after put(k) the storage holds k at
\* k.address, whether or not a record (k itself or another) was stored there
\* before; and a listing of all records has at most one entry per address,
\* which for an address last written by put(k) is the entry of k.
C4_PutIdempotent ==
    /\ last.op = "put" =>
          /\ IsOk(last.res)
          /\ IsOk(StoredAt(last.addr))
          /\ StoredAt(last.addr).val = last.kf[1]
    /\ (last.op = "list_accounts" /\ last.show) =>
          /\ IsOk(last.res)
          /\ \A a \in Addresses :
                /\ Cardinality(Entries(last.res, a)) <= 1
                /\ trail[a].stage = "put" =>
                      \E i \in Entries(last.res, a) :
                          /\ last.res.val[i].name = trail[a].kf[1].kf.name
                          /\ last.res.val[i].description =
                                 trail[a].kf[1].kf.description
                          /\ last.res.val[i].visible = trail[a].kf[1].kf.visible

C4_Witness ==
    /\ last.op = "put" /\ last.had /\ IsOk(last.res)
    /\ \E a \in Addresses : a # last.addr /\ db[a] # None

\* C5: update(addr, name, desc) on an existing record sets name to the supplied
\* name when one is supplied and description to the supplied description when
\* one is supplied, and leaves every other field of the record, and the
\* non-supplied one of name and description, as it was.
C5_UpdateFrame ==
    [][(last'.op = "update" /\ IsOk(last'.res)) =>
          LET old == search_by_address(db, last'.addr)
              new == search_by_address(db', last'.addr)
          IN  /\ IsOk(old) /\ IsOk(new)
              /\ new.val.name =
                    (IF last'.name # None THEN last'.name ELSE old.val.name)
              /\ new.val.description =
                    (IF last'.desc # None THEN last'.desc ELSE old.val.description)
              /\ \A f \in {"uuid", "address", "visible", "kdf", "keccak256_mac",
                            "meta"} : new.val[f] = old.val[f]]_vars

C5_Witness ==
    /\ last.op = "update" /\ IsOk(last.res)
    /\ last.name = None /\ last.desc # None
    /\ StoredAt(last.addr).val.name # None
    /\ StoredAt(last.addr).val.visible = Some(FALSE)

\* C6: search_by_address, hide, unhide and update called with an address under
\* which nothing is stored return the NotFound error and leave the storage as
\* it was.
C6_MissingAddress ==
    [][(/\ last'.op \in {"search_by_address", "hide", "unhide", "update"}
        /\ db[last'.addr] = None)
          => (IsErr(last'.res, NotFound) /\ db' = db)]_vars

C6_Witness ==
    /\ last.op = "update" /\ ~last.had /\ last.name # None
    /\ IsErr(last.res, NotFound)
    /\ \E a \in Addresses : db[a] # None

\* C7: delete(addr) returns NotFound when nothing is stored at addr, and returns
\* () only when a record at addr existed and was removed.
C7_DeleteNotFound ==
    last.op = "delete" =>
        /\ ~last.had => IsErr(last.res, NotFound)
        /\ IsOk(last.res) => (last.had /\ db[last.addr] = None)

\* C8: hide returns true exactly when the record was not hidden before the call
\* (visible absent or Some(true)), unhide returns true exactly when the record
\* was hidden before the call (visible == Some(false)).
C8_HideReportsChange ==
    [][(last'.op \in {"hide", "unhide"} /\ IsOk(last'.res)) =>
          LET old == search_by_address(db, last'.addr) IN
          last'.res.val =
              IF last'.op = "hide" THEN old.val.visible # Some(FALSE)
              ELSE old.val.visible = Some(FALSE)]_vars

\* C9: whatever values are stored, list_accounts returns Ok, with an entry for
\* every record that decodes and passes the visibility filter and no entry for
\* a value that does not decode.
C9_ListNeverAborts ==
    last.op = "list_accounts" =>
        /\ IsOk(last.res)
        /\ \A a \in Addresses :
              Listed(last.res, a) <=>
                  (IsOk(StoredAt(a)) /\ Shown(StoredAt(a).val, last.show))

\* C10: for every filename without the separator and every text j, with or
\* without separators in it, split(filename <|> j) is Ok((filename, j)); and a
\* listing after put(k), k's name holding the separator, carries for k the
\* filename generated by that put and k's name.
C10_SplitRejoins ==
    /\ splitOut # None =>
          /\ IsOk(splitOut[1])
          /\ splitOut[1].val = <<splitIn[1].filename, splitIn[1].json>>
    /\ \A a \in Addresses :
          (/\ last.op = "list_accounts" /\ last.show
           /\ trail[a].stage = "put") =>
              /\ IsOk(last.res)
              /\ \E i \in Entries(last.res, a) :
                    /\ last.res.val[i].filename =
                          generate_filename(trail[a].kf[1].kf.uuid, trail[a].kf[1].ts)
                    /\ last.res.val[i].name = trail[a].kf[1].kf.name

C10_Witness ==
    /\ splitOut # None
    /\ IsOk(splitOut[1])
    /\ Len(splitIn[1].filename) > 0
    /\ Len(StrSplit(splitIn[1].json, SEPARATOR)) = 3

\* C11: no two records stored at different addresses carry the same uuid, and a
\* put whose uuid is that of a record stored at another address returns the
\* Duplicate error.
C11_UuidUnique ==
    /\ \A a, b \in Addresses :
          (a # b /\ IsOk(StoredAt(a)) /\ IsOk(StoredAt(b)))
              => StoredAt(a).val.uuid # StoredAt(b).val.uuid
    /\ (/\ last.op = "put"
        /\ \E b \in Addresses :
              /\ b # last.addr
              /\ IsOk(StoredAt(b))
              /\ StoredAt(b).val.uuid = last.kf[1].uuid)
          => IsErr(last.res, "Duplicate")

AllDone == \A t \in Threads : pc[t] = "done"

\* C12: when the threads have each called put with a KeyFile for the same
\* address A and all calls have returned, the record stored at A is, in all its
\* fields, one of the KeyFiles submitted.
C12_ConcurrentPut ==
    \A a \in Addresses :
        (AllDone /\ \A t \in Threads : job[t].op = "put" /\ job[t].addr = a)
            => /\ IsOk(StoredAt(a))
               /\ \E t \in Threads : StoredAt(a).val = job[t].kf[1]

C12_Witness ==
    /\ AllDone
    /\ \E a \in Addresses :
          /\ \A t \in Threads : job[t].op = "put" /\ job[t].addr = a
          /\ Cardinality(stored[a]) = 3
    /\ \E t, u \in Threads :
          /\ job[t].kf[1].name # job[u].kf[1].name
          /\ job[t].kf[1].uuid # job[u].kf[1].uuid

\* C13: when hide(A) or unhide(A) and update(A, Some(n), desc) have run
\* concurrently on an existing record and both have returned Ok, the stored
\* record has the visibility set by hide/unhide and the name and description
\* set by update.
C13_NoLostWrite ==
    \A a \in Addresses : \A t, u \in Threads :
        (/\ AllDone
         /\ job[t].op \in {"hide", "unhide"} /\ job[t].addr = a
         /\ job[u].op = "update" /\ job[u].addr = a /\ job[u].name # None
         /\ IsOk(ret[t][1]) /\ IsOk(ret[u][1]))
            => /\ IsOk(StoredAt(a))
               /\ StoredAt(a).val.visible = Some(job[t].op = "unhide")
               /\ StoredAt(a).val.name = job[u].name
               /\ job[u].desc # None => StoredAt(a).val.description = job[u].desc

\* the AccountInfo that list_accounts makes of the stored value v
InfoOf(v) ==
    LET s == split(Some(v)) IN
    IF ~IsOk(s) THEN s
    ELSE LET k == decode(s.val[2]) IN
         IF ~IsOk(k) THEN k
         ELSE Ok([AccountInfoFrom(k.val) EXCEPT !.filename = s.val[1]])

\* C14: a list_accounts that ran while other threads wrote returns Ok, with an
\* entry for every record that was stored with the same value for the whole
\* call and is visible (visible absent or Some(true)); and every entry returned
\* is the AccountInfo of a value that was stored under its address at some
\* point.
C14_ListSnapshot ==
    \A t \in Threads :
        (pc[t] = "done" /\ job[t].op = "list_accounts") =>
            /\ IsOk(ret[t][1])
            /\ \A a \in stable[t] :
                  LET k == search_by_address(snap[t][1], a) IN
                  (IsOk(k) /\ k.val.visible # Some(FALSE)) => Listed(ret[t][1], a)
            /\ \A i \in 1..Len(ret[t][1].val) :
                  \E v \in stored[ret[t][1].val[i].address] :
                      IsOk(InfoOf(v)) /\ InfoOf(v).val = ret[t][1].val[i]

C14_Witness ==
    \E t, u \in Threads :
        /\ pc[t] = "done" /\ job[t].op = "list_accounts" /\ IsOk(ret[t][1])
        /\ pc[u] = "done" /\ job[u].op \in {"put", "delete", "hide", "update"}
        /\ stable[t] # {}
        /\ stable[t] # {a \in Addresses : snap[t][1][a] # None}
        /\ Len(ret[t][1].val) = 2

\* C15: decrypting, with the password it was encrypted under, the record made
\* by encrypting a secret returns that secret, for every password (the empty
\* one included), kdf and secret; so extract_key("1234567890") on the scrypt
\* and on the PBKDF2 record made under "1234567890" returns the recorded secret.
C15_DecryptEncrypt ==
    (/\ cryptOut # None
     /\ ~cryptIn[1].tampered
     /\ cryptOut[1].password = cryptIn[1].password)
        => /\ IsOk(cryptOut[1].res)
           /\ cryptOut[1].res.val = cryptIn[1].secret
           /\ extract_key(cryptKf[1], cryptIn[1].password) = Ok(cryptIn[1].secret)

C15_Witness ==
    /\ cryptOut # None /\ ~cryptIn[1].tampered
    /\ cryptOut[1].password = "" /\ cryptIn[1].password = ""
    /\ cryptIn[1].kdf = "pbkdf2"
    /\ IsOk(cryptOut[1].res)
    /\ cryptKf[1].cipher_text # cryptIn[1].secret

\* C16: when the MAC recomputed from the supplied password and the record's
\* cipher_text differs from the record's keccak256_mac, decrypt returns
\* MacMismatch, has not run the cipher and returns no plaintext.
C16_MacBeforePlaintext ==
    (/\ cryptOut # None
     /\ MacOf(derive(cryptOut[1].password, cryptKf[1].kdf, cryptKf[1].kdf_salt),
              cryptKf[1].cipher_text) # cryptKf[1].keccak256_mac)
        => /\ IsErr(cryptOut[1].res, MacMismatch)
           /\ cryptOut[1].cipher_runs = 0

C16_Witness ==
    /\ cryptOut # None
    /\ IsErr(cryptOut[1].res, MacMismatch)
    /\ cryptOut[1].password = cryptIn[1].password
    /\ cryptIn[1].tampered
    /\ cryptKf[1].keccak256_mac # Keccak256(<<>>)

\* C17: for every KeyFile k, with or without address, scrypt or PBKDF2,
\* decode(encode(k)) is Ok(k), equal to k in every field.
C17_DecodeEncode ==
    (codecOut # None /\ codecOut[1].key # None) =>
        /\ IsOk(codecOut[1].key[1])
        /\ codecOut[1].key[1].val = codecIn[1]
        /\ \A f \in DOMAIN codecIn[1] : codecOut[1].key[1].val[f] = codecIn[1][f]

C17_Witness ==
    /\ codecOut # None /\ codecOut[1].key # None
    /\ IsOk(codecOut[1].key[1])
    /\ codecIn[1].address = NoAddress
    /\ codecIn[1].kdf = "pbkdf2"
    /\ codecIn[1].name = Some(<<>>)
    /\ codecIn[1].visible = Some(FALSE)

\* C18: a backend_importWallet that succeeds reports the address of the
\* imported keyfile, and never the default (all-zero) address.
C18_ImportReportsAddress ==
    (/\ req # None
     /\ req[1].method = "backend_importWallet"
     /\ reply[1].kind = "result")
        => LET kf == decode(to_string(req[1].params.account[1])) IN
           /\ reply[1].val # AddrString(DefaultAddress)
           /\ kf.val.address # NoAddress => reply[1].val = AddrString(kf.val.address)

\* the password of a personal_newAccount request whose first parameter is one
PasswordOf(r) ==
    IF r.params.type = "Array" /\ Len(r.params.items) > 0
    THEN as_str(r.params.items[1]) ELSE None

\* C19: personal_newAccount with params [password], KeyFile::new having made a
\* KeyFile: a result is the string of the address decrypt_address(password)
\* gave, and the KeyFile was flushed with exactly that address; when
\* decrypt_address fails the reply is an internal error and no keyfile is
\* flushed; when flush fails the reply is an internal error and no address.
C19_CreateReportsAddress ==
    [][(/\ req' # None
        /\ req'[1].method = "personal_newAccount"
        /\ PasswordOf(req'[1]) # None
        /\ IsOk(req'[1].new_res))
          => LET r == req'[1]
                 file == [kf |-> r.new_res.val, addr |-> Some(r.addr_res.val),
                          name |-> None, descr |-> None, passwd |-> PasswordOf(r)]
             IN  /\ reply'[1].kind = "result" =>
                       /\ IsOk(r.addr_res)
                       /\ reply'[1].val = AddrString(r.addr_res.val)
                       /\ file \in flushed'
                       /\ flushed' = flushed \cup {file}
                 /\ ~IsOk(r.addr_res) =>
                       /\ reply'[1] = ErrorReply("internal_error", "")
                       /\ flushed' = flushed
                 /\ (IsOk(r.addr_res) /\ ~IsOk(r.flush_res)) =>
                       reply'[1] = ErrorReply("internal_error", "")
                 /\ upstream' = upstream]_vars

C19_Witness ==
    /\ req # None
    /\ req[1].method = "personal_newAccount"
    /\ reply[1].kind = "result"
    /\ reply[1].val = AddrString("A2")
    /\ \E f \in flushed : f.addr = Some("A2") /\ f.passwd = Some(<<"_">>)
    /\ \E f \in flushed : f.addr = Some("A1")

\* C20: eth_sendTransaction with params that parse as a transaction: when the
\* KeyFile stored for the transaction's account decrypts under the caller's
\* password, the request sent upstream is signed with that KeyFile's secret;
\* when no KeyFile is stored for the account or it does not decrypt under the
\* password, the reply is an error and nothing is sent upstream.
C20_SignsWithStoredKey ==
    [][(/\ req' # None
        /\ req'[1].method = "eth_sendTransaction"
        /\ IsOk(try_from(req'[1].params)))
          => LET from == try_from(req'[1].params).val.from
                 pw == as_str(req'[1].params.items[2])
                 files == {f \in flushed : f.addr = Some(from)}
             IN  /\ (\E f \in files : f.passwd = pw) =>
                       /\ reply'[1].kind = "upstream"
                       /\ Len(upstream') = Len(upstream) + 1
                       /\ \E f \in files :
                             /\ f.passwd = pw
                             /\ upstream'[Len(upstream')].params.signed_with =
                                    SecretOf(f.kf)
                 /\ (\A f \in files : f.passwd # None /\ f.passwd # pw) =>
                       /\ reply'[1].kind = "error"
                       /\ upstream' = upstream]_vars

\* what a caller can see of address a when nothing is stored under it:
\* search_by_address answers NotFound and neither listing has an entry for a
Gone(d, a) ==
    /\ IsErr(search_by_address(d, a), NotFound)
    /\ \A s \in Bool : ~Listed(list_accounts(d, s), a)

\* C21: once delete(A) has returned Ok for an address that held a record,
\* search_by_address(A) answers NotFound and list_accounts(true) and
\* list_accounts(false) have no entry for A, and this stays so through every
\* call that is not a put of a KeyFile with address A.
C21_DeletedStaysGone ==
    [][\A a \in Addresses :
          /\ (/\ last'.op = "delete" /\ last'.addr = a
              /\ last'.had /\ IsOk(last'.res)) => Gone(db', a)
          /\ (Gone(db, a) /\ ~(last'.op = "put" /\ last'.addr = a))
                => /\ Gone(db', a)
                   /\ (last'.op = "search_by_address" /\ last'.addr = a)
                         => IsErr(last'.res, NotFound)
                   /\ last'.op = "list_accounts" => ~Listed(last'.res, a)]_vars

C21_Witness ==
    /\ last.op = "delete" /\ last.had /\ IsOk(last.res)
    /\ Gone(db, last.addr)
    /\ \E a \in Addresses : a # last.addr /\ IsOk(StoredAt(a))

\* C22: put, delete, hide, unhide and update applied to address A leave the
\* value stored under every other address (filename and KeyFile) as it was,
\* and search_by_address and list_accounts leave the whole storage as it was.
C22_OtherAddressesUnchanged ==
    [][/\ last'.op \in {"put", "delete", "hide", "unhide", "update"}
            => \A b \in Addresses \ {last'.addr} : DbGet(db', b) = DbGet(db, b)
       /\ last'.op \in {"search_by_address", "list_accounts"} => db' = db]_vars

C22_Witness ==
    /\ last.op = "hide" /\ last.res = Ok(TRUE)
    /\ StoredAt(last.addr).val.visible = Some(FALSE)
    /\ \E b \in Addresses \ {last.addr} :
          /\ IsOk(StoredAt(b))
          /\ StoredAt(b).val.visible # Some(FALSE)

\* C23: eth_sendTransaction forwards at most one request per call: with
\* params that do not parse as a Transaction the reply is an invalid-params
\* error and nothing is sent upstream; with params that parse, exactly one
\* EthSendRawTransaction request carrying the signed raw transaction is sent.
C23_ForwardsOneOrNone ==
    [][(req' # None /\ req'[1].method = "eth_sendTransaction")
          => LET tr == try_from(req'[1].params) IN
             /\ Len(upstream') <= Len(upstream) + 1
             /\ ~IsOk(tr) =>
                   /\ reply'[1] = ErrorReply("invalid_params", tr.val)
                   /\ upstream' = upstream
             /\ IsOk(tr) =>
                   /\ Len(upstream') = Len(upstream) + 1
                   /\ SubSeq(upstream', 1, Len(upstream)) = upstream
                   /\ upstream'[Len(upstream')].method = "EthSendRawTransaction"
                   /\ upstream'[Len(upstream')].params.tx = tr.val]_vars

\* C24: for every params value the backend_importWallet and
\* personal_newAccount callbacks complete with a result or an error and never
\* panic; params that are not an object or lack the "account" member (import),
\* or that are an empty array or whose first element is not a string (create),
\* give an invalid-params error.
C24_CallbacksNeverPanic ==
    [][(/\ req' # None
        /\ req'[1].method \in {"backend_importWallet", "personal_newAccount"})
          => LET p == req'[1].params
                 malformed ==
                    IF req'[1].method = "backend_importWallet"
                    THEN p.type # "Map" \/ p.account = None
                    ELSE /\ p.type = "Array"
                         /\ (Len(p.items) = 0 \/ as_str(p.items[1]) = None)
             IN  /\ reply'[1].kind \in {"result", "error"}
                 /\ malformed =>
                       /\ reply'[1].kind = "error"
                       /\ reply'[1].val[1] = "invalid_params"]_vars

\* the call a helper has returned from
Called(fn) == utilIn # None /\ utilOut # None /\ utilIn[1].fn = fn

\* the suffix of data that starts at its first non-zero byte
FromFirstNonZero(data) ==
    LET nz == {i \in 1..Len(data) : data[i] # 0} IN
    IF nz = {} THEN <<>>
    ELSE SubSeq(data, CHOOSE i \in nz : \A j \in nz : i <= j, Len(data))

\* C25: for len >= data.len(), align_bytes(data, len) has length len, its
\* last data.len() bytes are data and all bytes before them are zero, and
\* trim_bytes of it equals trim_bytes(data); trim_bytes returns the suffix
\* that starts at the first non-zero byte, empty when every byte is zero.
C25_AlignThenTrim ==
    /\ (Called("align_bytes") /\ utilIn[1].len >= Len(utilIn[1].data)) =>
          LET data == utilIn[1].data
              len == utilIn[1].len
              out == utilOut[1]
          IN  /\ ~out.panicked
              /\ Len(out.val) = len
              /\ SubSeq(out.val, len - Len(data) + 1, len) = data
              /\ \A i \in 1..(len - Len(data)) : out.val[i] = 0
              /\ trim_bytes(out.val) = trim_bytes(data)
              /\ trim_bytes(out.val) = FromFirstNonZero(data)
    /\ Called("trim_bytes") => utilOut[1] = FromFirstNonZero(utilIn[1].data)

C25_Witness ==
    /\ Called("align_bytes")
    /\ utilIn[1].data = <<0, 255, 0>>
    /\ utilIn[1].len = 4
    /\ utilOut[1] = Returned(<<0, 0, 255, 0>>)

\* the byte of weight 256^k in the base-256 notation of a u64 (k in 0..7)
Digit(x, k) ==
    LET w == x[4 - (k \div 2)] IN
    IF k % 2 = 0 THEN w % 256 ELSE w \div 256

\* the len-byte big-endian notation of x mod 2^(8*len), for len in 0..8
BigEndian(x, len) == [i \in 1..len |-> Digit(x, len - i)]

\* x < 2^(8*len)
Fits(x, len) == \A k \in len..7 : Digit(x, k) = 0

\* the u64 a slice of at most 8 bytes denotes, read big-endian
ValueOf(v) ==
    LET byte(k) == IF k < Len(v) THEN v[Len(v) - k] ELSE 0 IN
    [i \in 1..4 |-> byte(2 * (4 - i) + 1) * 256 + byte(2 * (4 - i))]

\* C26: for len in {1, 2, 4, 8}, to_bytes(x, len) is the len-byte big-endian
\* encoding of x mod 2^(8*len), and for any other len it is empty;
\* to_u64(to_bytes(x, len)) == x for every x < 2^(8*len), and to_u64 of a
\* slice of at most 8 bytes is its big-endian unsigned value.
C26_ToBytesToU64 ==
    /\ Called("to_bytes") =>
          LET x == utilIn[1].x
              len == utilIn[1].len
              out == utilOut[1]
          IN  IF len \in {1, 2, 4, 8}
              THEN /\ out = BigEndian(x, len)
                   /\ Fits(x, len) => to_u64(out) = Returned(x)
              ELSE out = <<>>
    /\ (Called("to_u64") /\ Len(utilIn[1].data) <= 8) =>
          utilOut[1] = Returned(ValueOf(utilIn[1].data))

C26_Witness ==
    /\ Called("to_bytes")
    /\ utilIn[1].x = <<0, 0, 1, 256>>
    /\ utilIn[1].len = 2
    /\ utilOut[1] = <<1, 0>>

\* x < y for two u64 values
LessU64(x, y) ==
    \E i \in 1..4 : x[i] < y[i] /\ \A j \in 1..(i - 1) : x[j] = y[j]

\* 256^k as a u64, for k in 0..7
Pow256(k) ==
    [i \in 1..4 |-> IF i = 4 - (k \div 2) THEN (IF k % 2 = 0 THEN 1 ELSE 256) ELSE 0]

\* x < 256^k, for k in 0..8 (every u64 is below 256^8)
Below256To(x, k) == k = 8 \/ LessU64(x, Pow256(k))

\* C27: rlp_bytes_count(x) returns, for every x, the least number of bytes
\* that represent x: 0 for x == 0, otherwise the least k >= 1 with x < 256^k.
C27_RlpBytesCount ==
    Called("rlp_bytes_count") =>
        LET x == utilIn[1].x
            k == utilOut[1]
        IN  IF x = ZeroU64 THEN k = 0
            ELSE /\ k \in 1..8
                 /\ Below256To(x, k)
                 /\ ~Below256To(x, k - 1)

C27_Witness ==
    /\ Called("rlp_bytes_count")
    /\ utilIn[1].x = <<0, 1, 0, 255>>
    /\ utilOut[1] = 5

====
